---- MODULE Spec2Model ----
(***************************************************************************)
(* Model of lsh-rs/src/table.rs: the in-memory LSH candidate storage.      *)
(* A MemoryTable owns n_hash_tables hash tables (Hash -> Bucket, a Bucket  *)
(* being a set of u32 indexes) and one VecStore, an append-only Vec of     *)
(* data points the indexes point into.                                     *)
(***************************************************************************)
EXTENDS Integers, Sequences, FiniteSets

(* ------------------------------ bounds -------------------------------- *)

\* Number of hash tables the MemoryTable is constructed with: new(L).
L == 2

\* Largest number of data points pushed to the VecStore in one behaviour.
MaxPuts == 2

\* Largest size passed to increase_storage.
MaxSize == 2

\* Width of an index in bits. The code's u32 has 32; the model scales it
\* down. Spec stores fewer than 2^HandleBits data points, SpecWrap one more
\* than 2^HandleBits.
HandleBits == 2

\* Number of data points SpecWrap stores: one more than there are indexes.
WrapPuts == 2 ^ HandleBits + 1

\* Hash codes handed in by the caller (opaque, compared by equality).
Hashes == {"codeA", "codeB"}

\* Data points handed in by the caller: f32 vectors of one dimensionality,
\* no NaN component.
DataPoints == {<<1, 2>>, <<3, 4>>}

\* hash_table arguments: every valid table number and one past the end.
TableArgs == 0..L

SizeArgs == 0..MaxSize

\* idx arguments of idx_to_datapoint, one past the last index included.
IdxArgs == 0..MaxPuts

(* ------------------------------ state --------------------------------- *)

VARIABLES
    hash_tables,    \* MemoryTable.hash_tables: table number -> (Hash -> Bucket)
    n_hash_tables,  \* MemoryTable.n_hash_tables
    vec_store,      \* MemoryTable.vec_store: [map, capacity] of the Vec
    call,           \* the last call of the public interface and what it returned
    puts,           \* every put performed, with the index push() minted for it
    unreserved      \* the VecStore of the same calls without the increase_storage ones

vars == <<hash_tables, n_hash_tables, vec_store, call, puts, unreserved>>

Max(a, b) == IF a >= b THEN a ELSE b

\* HashTableError and the two other ways a call ends.
Results == {"Ok", "NotFound", "Failed", "Panic"}

\* Option<u32>: None is the empty set, Some(x) the singleton {x}.
None == {}
Some(x) == {x}

\* crate::utils::all_eq: exact componentwise comparison of two vectors.
all_eq(a, b) ==
    /\ Len(a) = Len(b)
    /\ \A i \in 1..Len(a) : a[i] = b[i]

\* `x as u32` of a usize.
as_u32(x) == x % (2 ^ HandleBits)

\* `idx as usize` of a u32.
as_usize(idx) == idx

(* ----------------------------- VecStore ------------------------------- *)

\* Vec::reserve(additional): nothing if the spare capacity suffices, else
\* the buffer grows to hold len + additional elements, at least doubling
\* (the amortised growth Vec::push relies on as well).
Vec_reserve(vs, additional) ==
    IF vs.capacity - Len(vs.map) >= additional
    THEN vs
    ELSE [vs EXCEPT !.capacity = Max(2 * vs.capacity, Len(vs.map) + additional)]

\* A push that returns the new length instead of the last index.
VecStore_push_len(vs, d) ==
    LET grown == Vec_reserve(vs, 1)
        pushed == [grown EXCEPT !.map = Append(@, d)]
    IN  [vs |-> pushed, idx |-> as_u32(Len(pushed.map))]

\* A push that deduplicates: a data point already stored is not appended
\* again, its existing index is returned.
VecStore_push_dedup(vs, d) ==
    LET found == {i \in 1..Len(vs.map) : all_eq(vs.map[i], d)}
        grown == Vec_reserve(vs, 1)
        pushed == [grown EXCEPT !.map = Append(@, d)]
    IN  IF found # {}
        THEN [vs |-> vs, idx |-> as_u32((CHOOSE i \in found : \A j \in found : i <= j) - 1)]
        ELSE [vs |-> pushed, idx |-> as_u32(Len(pushed.map) - 1)]

\* VecStore::push: the store after the push and the index returned.
VecStore_push(vs, d) ==
    LET grown == Vec_reserve(vs, 1)
        pushed == [grown EXCEPT !.map = Append(@, d)]
    IN  [vs |-> pushed, idx |-> as_u32(Len(pushed.map) - 1)]

\* A position that scans from the back: index of the last stored vector
\* all_eq to d.
VecStore_position_last(vs, d) ==
    LET found == {i \in 1..Len(vs.map) : all_eq(vs.map[i], d)}
    IN  IF found = {}
        THEN None
        ELSE Some(as_u32((CHOOSE i \in found : \A j \in found : i >= j) - 1))

\* VecStore::position: index of the first stored vector all_eq to d.
VecStore_position(vs, d) ==
    LET found == {i \in 1..Len(vs.map) : all_eq(vs.map[i], d)}
    IN  IF found = {}
        THEN None
        ELSE Some(as_u32((CHOOSE i \in found : \A j \in found : i <= j) - 1))

\* Whether map[idx as usize] is inside the Vec (else the access panics).
InBounds(vs, idx) == as_usize(idx) < Len(vs.map)

\* VecStore::get, for an index that is in bounds.
VecStore_get(vs, idx) == vs.map[as_usize(idx) + 1]

\* An increase_storage that resizes the Vec to `size` instead of reserving.
VecStore_increase_storage_resize(vs, size) ==
    IF vs.capacity < size
    THEN [map |-> [i \in 1..size |-> IF i <= Len(vs.map) THEN vs.map[i] ELSE <<>>],
          capacity |-> size]
    ELSE vs

\* VecStore::increase_storage
VecStore_increase_storage(vs, size) ==
    IF vs.capacity < size
    THEN LET diff == size - vs.capacity
         IN  Vec_reserve(vs, diff)
    ELSE vs

(* ---------------------------- MemoryTable ----------------------------- *)

\* The record of a call: its name, its arguments (the ones it does not take
\* at their defaults), its result and, for the two reading calls, the value
\* returned.
Call(op, hash, d, hash_table, n, result, bucket, point) ==
    [op |-> op, hash |-> hash, d |-> d, hash_table |-> hash_table, n |-> n,
     result |-> result, bucket |-> bucket, point |-> point]

\* The process has panicked: nothing runs after that.
Panicked == call.result = "Panic"

\* Whether hash_tables[hash_table] is inside the Vec of tables.
ValidTable(hash_table) == hash_table \in DOMAIN hash_tables

\* A new that allocates one hash table too many.
new_extra_table(n) ==
    /\ hash_tables = [t \in 0..n |-> [h \in {} |-> {}]]
    /\ n_hash_tables = n
    /\ vec_store = [map |-> <<>>, capacity |-> 0]

\* MemoryTable::new
new(n) ==
    /\ hash_tables = [t \in 0..(n - 1) |-> [h \in {} |-> {}]]
    /\ n_hash_tables = n
    /\ vec_store = [map |-> <<>>, capacity |-> 0]

Init ==
    /\ new(L)
    /\ call = Call("new", "", <<>>, 0, 0, "Ok", {}, <<>>)
    /\ puts = <<>>
    /\ unreserved = vec_store

\* A put that inserts the index under the hash in every hash table.
put_all_tables(hash, d, hash_table) ==
    /\ ~Panicked
    /\ IF ~ValidTable(hash_table)
       THEN /\ call' = Call("put", hash, d, hash_table, 0, "Panic", {}, <<>>)
            /\ UNCHANGED <<hash_tables, n_hash_tables, vec_store, puts, unreserved>>
       ELSE LET pushed == VecStore_push(vec_store, d)
                idx == pushed.idx
            IN  /\ vec_store' = pushed.vs
                /\ hash_tables' =
                       [t \in DOMAIN hash_tables |->
                           [h \in DOMAIN hash_tables[t] \cup {hash} |->
                               IF h = hash
                               THEN (IF hash \in DOMAIN hash_tables[t]
                                     THEN hash_tables[t][hash] ELSE {}) \cup {idx}
                               ELSE hash_tables[t][h]]]
                /\ puts' = Append(puts, [hash |-> hash, d |-> d,
                                         hash_table |-> hash_table, idx |-> idx])
                /\ unreserved' = VecStore_push(unreserved, d).vs
                /\ call' = Call("put", hash, d, hash_table, 0, "Ok", {}, <<>>)
                /\ UNCHANGED n_hash_tables

\* MemoryTable::put
put(hash, d, hash_table) ==
    /\ ~Panicked
    /\ IF ~ValidTable(hash_table)
       THEN /\ call' = Call("put", hash, d, hash_table, 0, "Panic", {}, <<>>)
            /\ UNCHANGED <<hash_tables, n_hash_tables, vec_store, puts, unreserved>>
       ELSE LET tbl == hash_tables[hash_table]
                bucket == IF hash \in DOMAIN tbl THEN tbl[hash] ELSE {}
                pushed == VecStore_push(vec_store, d)
                idx == pushed.idx
            IN  /\ vec_store' = pushed.vs
                /\ hash_tables' =
                       [hash_tables EXCEPT ![hash_table] =
                           [h \in DOMAIN tbl \cup {hash} |->
                               IF h = hash THEN bucket \cup {idx} ELSE tbl[h]]]
                /\ puts' = Append(puts, [hash |-> hash, d |-> d,
                                         hash_table |-> hash_table, idx |-> idx])
                /\ unreserved' = VecStore_push(unreserved, d).vs
                /\ call' = Call("put", hash, d, hash_table, 0, "Ok", {}, <<>>)
                /\ UNCHANGED n_hash_tables

\* A delete that looks the bucket up before it searches the VecStore.
delete_bucket_first(hash, d, hash_table) ==
    /\ ~Panicked
    /\ LET pos == VecStore_position(vec_store, d)
       IN  IF ~ValidTable(hash_table)
           THEN /\ call' = Call("delete", hash, d, hash_table, 0, "Panic", {}, <<>>)
                /\ UNCHANGED <<hash_tables, n_hash_tables, vec_store, puts, unreserved>>
           ELSE IF hash \notin DOMAIN hash_tables[hash_table]
           THEN /\ call' = Call("delete", hash, d, hash_table, 0, "NotFound", {}, <<>>)
                /\ UNCHANGED <<hash_tables, n_hash_tables, vec_store, puts, unreserved>>
           ELSE /\ hash_tables' =
                       [hash_tables EXCEPT ![hash_table][hash] = @ \ pos]
                /\ call' = Call("delete", hash, d, hash_table, 0, "Ok", {}, <<>>)
                /\ UNCHANGED <<n_hash_tables, vec_store, puts, unreserved>>

\* A delete that removes a bucket once it has emptied it.
delete_prune(hash, d, hash_table) ==
    /\ ~Panicked
    /\ LET pos == VecStore_position(vec_store, d)
       IN  IF pos = None
           THEN /\ call' = Call("delete", hash, d, hash_table, 0, "Ok", {}, <<>>)
                /\ UNCHANGED <<hash_tables, n_hash_tables, vec_store, puts, unreserved>>
           ELSE IF ~ValidTable(hash_table)
           THEN /\ call' = Call("delete", hash, d, hash_table, 0, "Panic", {}, <<>>)
                /\ UNCHANGED <<hash_tables, n_hash_tables, vec_store, puts, unreserved>>
           ELSE IF hash \notin DOMAIN hash_tables[hash_table]
           THEN /\ call' = Call("delete", hash, d, hash_table, 0, "NotFound", {}, <<>>)
                /\ UNCHANGED <<hash_tables, n_hash_tables, vec_store, puts, unreserved>>
           ELSE LET tbl == hash_tables[hash_table]
                    left == tbl[hash] \ pos
                IN  /\ hash_tables' =
                           [hash_tables EXCEPT ![hash_table] =
                               IF left = {}
                               THEN [h \in DOMAIN tbl \ {hash} |-> tbl[h]]
                               ELSE [tbl EXCEPT ![hash] = left]]
                    /\ call' = Call("delete", hash, d, hash_table, 0, "Ok", {}, <<>>)
                    /\ UNCHANGED <<n_hash_tables, vec_store, puts, unreserved>>

\* A delete that also takes the data point out of the VecStore.
delete_physical(hash, d, hash_table) ==
    /\ ~Panicked
    /\ LET pos == VecStore_position(vec_store, d)
       IN  IF pos = None
           THEN /\ call' = Call("delete", hash, d, hash_table, 0, "Ok", {}, <<>>)
                /\ UNCHANGED <<hash_tables, n_hash_tables, vec_store, puts, unreserved>>
           ELSE IF ~ValidTable(hash_table)
           THEN /\ call' = Call("delete", hash, d, hash_table, 0, "Panic", {}, <<>>)
                /\ UNCHANGED <<hash_tables, n_hash_tables, vec_store, puts, unreserved>>
           ELSE IF hash \notin DOMAIN hash_tables[hash_table]
           THEN /\ call' = Call("delete", hash, d, hash_table, 0, "NotFound", {}, <<>>)
                /\ UNCHANGED <<hash_tables, n_hash_tables, vec_store, puts, unreserved>>
           ELSE LET at == (CHOOSE i \in pos : TRUE) + 1
                IN  /\ hash_tables' =
                           [hash_tables EXCEPT ![hash_table][hash] = @ \ pos]
                    /\ vec_store' =
                           [vec_store EXCEPT !.map =
                               SubSeq(@, 1, at - 1) \o SubSeq(@, at + 1, Len(@))]
                    /\ call' = Call("delete", hash, d, hash_table, 0, "Ok", {}, <<>>)
                    /\ UNCHANGED <<n_hash_tables, puts, unreserved>>

\* A delete that creates the bucket it does not find.
delete_create(hash, d, hash_table) ==
    /\ ~Panicked
    /\ LET pos == VecStore_position(vec_store, d)
       IN  IF pos = None
           THEN /\ call' = Call("delete", hash, d, hash_table, 0, "Ok", {}, <<>>)
                /\ UNCHANGED <<hash_tables, n_hash_tables, vec_store, puts, unreserved>>
           ELSE IF ~ValidTable(hash_table)
           THEN /\ call' = Call("delete", hash, d, hash_table, 0, "Panic", {}, <<>>)
                /\ UNCHANGED <<hash_tables, n_hash_tables, vec_store, puts, unreserved>>
           ELSE LET tbl == hash_tables[hash_table]
                    bucket == IF hash \in DOMAIN tbl THEN tbl[hash] ELSE {}
                IN  /\ hash_tables' =
                           [hash_tables EXCEPT ![hash_table] =
                               [h \in DOMAIN tbl \cup {hash} |->
                                   IF h = hash THEN bucket \ pos ELSE tbl[h]]]
                    /\ call' = Call("delete", hash, d, hash_table, 0, "Ok", {}, <<>>)
                    /\ UNCHANGED <<n_hash_tables, vec_store, puts, unreserved>>

\* A delete that takes a missing bucket for an empty one and returns Ok.
delete_lenient(hash, d, hash_table) ==
    /\ ~Panicked
    /\ LET pos == VecStore_position(vec_store, d)
       IN  IF pos = None
           THEN /\ call' = Call("delete", hash, d, hash_table, 0, "Ok", {}, <<>>)
                /\ UNCHANGED <<hash_tables, n_hash_tables, vec_store, puts, unreserved>>
           ELSE IF ~ValidTable(hash_table)
           THEN /\ call' = Call("delete", hash, d, hash_table, 0, "Panic", {}, <<>>)
                /\ UNCHANGED <<hash_tables, n_hash_tables, vec_store, puts, unreserved>>
           ELSE IF hash \notin DOMAIN hash_tables[hash_table]
           THEN /\ call' = Call("delete", hash, d, hash_table, 0, "Ok", {}, <<>>)
                /\ UNCHANGED <<hash_tables, n_hash_tables, vec_store, puts, unreserved>>
           ELSE /\ hash_tables' =
                       [hash_tables EXCEPT ![hash_table][hash] = @ \ pos]
                /\ call' = Call("delete", hash, d, hash_table, 0, "Ok", {}, <<>>)
                /\ UNCHANGED <<n_hash_tables, vec_store, puts, unreserved>>

\* A delete that takes the index out of every bucket of the hash table.
delete_any_bucket(hash, d, hash_table) ==
    /\ ~Panicked
    /\ LET pos == VecStore_position(vec_store, d)
       IN  IF pos = None
           THEN /\ call' = Call("delete", hash, d, hash_table, 0, "Ok", {}, <<>>)
                /\ UNCHANGED <<hash_tables, n_hash_tables, vec_store, puts, unreserved>>
           ELSE IF ~ValidTable(hash_table)
           THEN /\ call' = Call("delete", hash, d, hash_table, 0, "Panic", {}, <<>>)
                /\ UNCHANGED <<hash_tables, n_hash_tables, vec_store, puts, unreserved>>
           ELSE IF hash \notin DOMAIN hash_tables[hash_table]
           THEN /\ call' = Call("delete", hash, d, hash_table, 0, "NotFound", {}, <<>>)
                /\ UNCHANGED <<hash_tables, n_hash_tables, vec_store, puts, unreserved>>
           ELSE LET tbl == hash_tables[hash_table]
                IN  /\ hash_tables' =
                           [hash_tables EXCEPT ![hash_table] =
                               [h \in DOMAIN tbl |-> tbl[h] \ pos]]
                    /\ call' = Call("delete", hash, d, hash_table, 0, "Ok", {}, <<>>)
                    /\ UNCHANGED <<n_hash_tables, vec_store, puts, unreserved>>

\* A delete that searches the bucket, not the whole VecStore: it removes the
\* smallest index of the bucket whose vector is all_eq to d.
delete_in_bucket(hash, d, hash_table) ==
    /\ ~Panicked
    /\ LET pos == VecStore_position(vec_store, d)
       IN  IF pos = None
           THEN /\ call' = Call("delete", hash, d, hash_table, 0, "Ok", {}, <<>>)
                /\ UNCHANGED <<hash_tables, n_hash_tables, vec_store, puts, unreserved>>
           ELSE IF ~ValidTable(hash_table)
           THEN /\ call' = Call("delete", hash, d, hash_table, 0, "Panic", {}, <<>>)
                /\ UNCHANGED <<hash_tables, n_hash_tables, vec_store, puts, unreserved>>
           ELSE IF hash \notin DOMAIN hash_tables[hash_table]
           THEN /\ call' = Call("delete", hash, d, hash_table, 0, "NotFound", {}, <<>>)
                /\ UNCHANGED <<hash_tables, n_hash_tables, vec_store, puts, unreserved>>
           ELSE LET bucket == hash_tables[hash_table][hash]
                    eq == {i \in bucket : all_eq(VecStore_get(vec_store, i), d)}
                    victim == IF eq = {}
                              THEN {}
                              ELSE {CHOOSE i \in eq : \A j \in eq : i <= j}
                IN  /\ hash_tables' =
                           [hash_tables EXCEPT ![hash_table][hash] = @ \ victim]
                    /\ call' = Call("delete", hash, d, hash_table, 0, "Ok", {}, <<>>)
                    /\ UNCHANGED <<n_hash_tables, vec_store, puts, unreserved>>

\* MemoryTable::delete
delete(hash, d, hash_table) ==
    /\ ~Panicked
    /\ LET pos == VecStore_position(vec_store, d)
       IN  IF pos = None
           THEN /\ call' = Call("delete", hash, d, hash_table, 0, "Ok", {}, <<>>)
                /\ UNCHANGED <<hash_tables, n_hash_tables, vec_store, puts, unreserved>>
           ELSE IF ~ValidTable(hash_table)
           THEN /\ call' = Call("delete", hash, d, hash_table, 0, "Panic", {}, <<>>)
                /\ UNCHANGED <<hash_tables, n_hash_tables, vec_store, puts, unreserved>>
           ELSE IF hash \notin DOMAIN hash_tables[hash_table]
           THEN /\ call' = Call("delete", hash, d, hash_table, 0, "NotFound", {}, <<>>)
                /\ UNCHANGED <<hash_tables, n_hash_tables, vec_store, puts, unreserved>>
           ELSE /\ hash_tables' =
                       [hash_tables EXCEPT ![hash_table][hash] = @ \ pos]
                /\ call' = Call("delete", hash, d, hash_table, 0, "Ok", {}, <<>>)
                /\ UNCHANGED <<n_hash_tables, vec_store, puts, unreserved>>

\* MemoryTable::query_bucket
query_bucket(hash, hash_table) ==
    /\ ~Panicked
    /\ IF ~ValidTable(hash_table)
       THEN call' = Call("query_bucket", hash, <<>>, hash_table, 0, "Panic", {}, <<>>)
       ELSE IF hash \notin DOMAIN hash_tables[hash_table]
       THEN call' = Call("query_bucket", hash, <<>>, hash_table, 0, "NotFound", {}, <<>>)
       ELSE call' = Call("query_bucket", hash, <<>>, hash_table, 0, "Ok",
                         hash_tables[hash_table][hash], <<>>)
    /\ UNCHANGED <<hash_tables, n_hash_tables, vec_store, puts, unreserved>>

\* MemoryTable::query: the distance function is never called.
query ==
    /\ ~Panicked
    /\ call' = Call("query", "", <<>>, 0, 0, "Failed", {}, <<>>)
    /\ UNCHANGED <<hash_tables, n_hash_tables, vec_store, puts, unreserved>>

\* MemoryTable::idx_to_datapoint
idx_to_datapoint(idx) ==
    /\ ~Panicked
    /\ IF InBounds(vec_store, idx)
       THEN call' = Call("idx_to_datapoint", "", <<>>, 0, idx, "Ok", {},
                         VecStore_get(vec_store, idx))
       ELSE call' = Call("idx_to_datapoint", "", <<>>, 0, idx, "Panic", {}, <<>>)
    /\ UNCHANGED <<hash_tables, n_hash_tables, vec_store, puts, unreserved>>

\* MemoryTable::increase_storage
increase_storage(size) ==
    /\ ~Panicked
    /\ vec_store' = VecStore_increase_storage(vec_store, size)
    /\ call' = Call("increase_storage", "", <<>>, 0, size, "Ok", {}, <<>>)
    /\ UNCHANGED <<hash_tables, n_hash_tables, puts, unreserved>>

Next ==
    \/ \E hash \in Hashes, d \in DataPoints, hash_table \in TableArgs :
           Len(vec_store.map) < MaxPuts /\ put(hash, d, hash_table)
    \/ \E hash \in Hashes, d \in DataPoints, hash_table \in TableArgs :
           delete(hash, d, hash_table)
    \/ \E hash \in Hashes, hash_table \in TableArgs :
           query_bucket(hash, hash_table)
    \/ query
    \/ \E idx \in IdxArgs : idx_to_datapoint(idx)
    \/ \E size \in SizeArgs : increase_storage(size)

Spec == Init /\ [][Next]_vars

\* The calls of a caller that stores more data points than a u32 (here an
\* index of HandleBits bits) can number, all under one hash in table 0.
NextWrap ==
    \/ \E d \in DataPoints :
           Len(vec_store.map) < WrapPuts /\ put("codeA", d, 0)
    \/ \E d \in DataPoints : delete("codeA", d, 0)
    \/ query_bucket("codeA", 0)
    \/ \E idx \in 0..(2 ^ HandleBits - 1) : idx_to_datapoint(idx)

SpecWrap == Init /\ [][NextWrap]_vars

(* ------------------------------ claims -------------------------------- *)

\* The put recorded at position i of the history.
PutAt(i, hash, d, hash_table) ==
    /\ puts[i].hash = hash
    /\ all_eq(puts[i].d, d)
    /\ puts[i].hash_table = hash_table

\* No put(_, d, hash_table) was ever performed.
NeverPutInto(d, hash_table) ==
    \A i \in DOMAIN puts :
        ~(all_eq(puts[i].d, d) /\ puts[i].hash_table = hash_table)

\* Some put(hash, _, hash_table) was performed.
EverPutUnder(hash, hash_table) ==
    \E i \in DOMAIN puts :
        puts[i].hash = hash /\ puts[i].hash_table = hash_table

\* Some bucket exists and is empty: a delete has taken an index out.
SomeBucketEmptied ==
    \E t \in DOMAIN hash_tables : \E h \in DOMAIN hash_tables[t] :
        hash_tables[t][h] = {}

\* A step leaves every bucket of every table and the stored vectors as they are.
StoreAndBucketsUnchanged ==
    /\ hash_tables' = hash_tables
    /\ vec_store'.map = vec_store.map

\* C1: after any sequence of put, delete and increase_storage, the index
\* minted by every put that was performed is in the store and resolves to a
\* vector componentwise equal to the one put; idx_to_datapoint called with
\* such an index returns Ok and that vector.
C1_PutResolves ==
    /\ \A i \in DOMAIN puts :
           /\ InBounds(vec_store, puts[i].idx)
           /\ all_eq(VecStore_get(vec_store, puts[i].idx), puts[i].d)
    /\ call.op = "idx_to_datapoint" =>
           \A i \in DOMAIN puts :
               puts[i].idx = call.n =>
                   call.result = "Ok" /\ all_eq(call.point, puts[i].d)

\* C1 witness: idx_to_datapoint has resolved the index of the second of two
\* puts made into different tables, after a delete emptied a bucket.
C1_Witness ==
    /\ call.op = "idx_to_datapoint"
    /\ call.result = "Ok"
    /\ Len(puts) = 2
    /\ puts[1].hash_table # puts[2].hash_table
    /\ call.n = puts[2].idx
    /\ call.point = puts[2].d
    /\ SomeBucketEmptied

\* C2: the n-th put mints index n-1, whatever was deleted or reserved in
\* between, so no two puts share an index, also when they put the same
\* vector.
C2_DenseHandles ==
    /\ \A i \in DOMAIN puts : puts[i].idx = i - 1
    /\ \A i, j \in DOMAIN puts : i # j => puts[i].idx # puts[j].idx
    /\ Len(vec_store.map) = Len(puts)

\* C2 witness: the same vector was put twice and got the indexes 0 and 1.
C2_Witness ==
    /\ Len(puts) = 2
    /\ all_eq(puts[1].d, puts[2].d)
    /\ puts[1].idx = 0
    /\ puts[2].idx = 1

\* C3 (as claimed): put, delete and query_bucket called with a table number
\* outside [0, L) end in an explicit invalid-band error.
C3_InvalidBandIsAnError ==
    (call.op \in {"put", "delete", "query_bucket"} /\ ~ValidTable(call.hash_table))
        => call.result = "InvalidBand"

\* C4 (as claimed): delete(hash, d, t), t a valid table d was never put
\* into, returns Ok and leaves the store and every bucket unchanged.
C4_DeleteNeverPutIsOk ==
    [][(call'.op = "delete" /\ ValidTable(call'.hash_table)
          /\ NeverPutInto(call'.d, call'.hash_table))
        => (call'.result = "Ok" /\ StoreAndBucketsUnchanged)]_vars

\* C4 (amended): delete(hash, d, t), t a valid table d was never put into,
\* leaves the store and every bucket unchanged; it returns NotFound when d
\* equals a stored vector and table t has no bucket for hash, Ok otherwise.
C4_DeleteNeverPutChangesNothing ==
    [][(call'.op = "delete" /\ ValidTable(call'.hash_table)
          /\ NeverPutInto(call'.d, call'.hash_table))
        => /\ StoreAndBucketsUnchanged
           /\ call'.result =
                  IF /\ \E i \in DOMAIN puts : all_eq(puts[i].d, call'.d)
                     /\ call'.hash \notin DOMAIN hash_tables[call'.hash_table]
                  THEN "NotFound"
                  ELSE "Ok"]_vars

\* C4 witness: a delete of a vector that is stored, but was put into another
\* table only, has returned NotFound.
C4_Witness ==
    /\ call.op = "delete"
    /\ call.result = "NotFound"
    /\ ValidTable(call.hash_table)
    /\ NeverPutInto(call.d, call.hash_table)
    /\ \E i \in DOMAIN puts :
           all_eq(puts[i].d, call.d) /\ puts[i].hash_table # call.hash_table

\* C5 (as claimed): when bucket (hash, t) holds exactly one index, minted by
\* put(hash, d, t), delete(hash, d, t) returns Ok and leaves the bucket
\* existing and empty, which is what query_bucket(hash, t) then returns.
C5_SoleMemberDeleted ==
    [][(/\ call'.op = "delete"
        /\ ValidTable(call'.hash_table)
        /\ call'.hash \in DOMAIN hash_tables[call'.hash_table]
        /\ \E i \in DOMAIN puts :
               /\ PutAt(i, call'.hash, call'.d, call'.hash_table)
               /\ hash_tables[call'.hash_table][call'.hash] = {puts[i].idx})
        => /\ call'.result = "Ok"
           /\ call'.hash \in DOMAIN hash_tables'[call'.hash_table]
           /\ hash_tables'[call'.hash_table][call'.hash] = {}]_vars

\* C6: no operation shrinks the vector store or changes an entry of it, and
\* after a delete that returned Ok every index minted by a put still
\* resolves to the vector that was put.
C6_StoreOnlyGrows ==
    [][/\ Len(vec_store'.map) >= Len(vec_store.map)
       /\ \A i \in 1..Len(vec_store.map) : vec_store'.map[i] = vec_store.map[i]
       /\ (call'.op = "delete" /\ call'.result = "Ok") =>
              \A i \in DOMAIN puts' :
                  /\ InBounds(vec_store', puts'[i].idx)
                  /\ all_eq(VecStore_get(vec_store', puts'[i].idx), puts'[i].d)]_vars

\* C6 witness: a delete returned Ok for a vector put under that hash in that
\* table; its index is out of the bucket and still resolves to the vector.
C6_Witness ==
    /\ call.op = "delete"
    /\ call.result = "Ok"
    /\ \E i \in DOMAIN puts :
           /\ PutAt(i, call.hash, call.d, call.hash_table)
           /\ puts[i].idx \notin hash_tables[call.hash_table][call.hash]
           /\ all_eq(VecStore_get(vec_store, puts[i].idx), call.d)

\* C7: in a valid table, a bucket exists for a hash exactly when some put
\* was made under that hash into that table, whatever was deleted since;
\* query_bucket returns NotFound when there is none and Ok, with the
\* bucket, when there is one.
C7_BucketIffPut ==
    /\ \A t \in DOMAIN hash_tables : \A h \in Hashes :
           (h \in DOMAIN hash_tables[t]) <=> EverPutUnder(h, t)
    /\ (call.op = "query_bucket" /\ ValidTable(call.hash_table)) =>
           /\ call.result \in {"Ok", "NotFound"}
           /\ (call.result = "NotFound") <=> ~EverPutUnder(call.hash, call.hash_table)
           /\ call.result = "Ok" =>
                  call.bucket = hash_tables[call.hash_table][call.hash]

\* C7 witness: query_bucket returned Ok and the empty set for a bucket a put
\* created and a delete emptied.
C7_Witness ==
    /\ call.op = "query_bucket"
    /\ call.result = "Ok"
    /\ call.bucket = {}
    /\ EverPutUnder(call.hash, call.hash_table)

\* C8: delete(hash, d, t) with d equal to a stored vector and no bucket for
\* hash in the valid table t returns NotFound, changes neither the store nor
\* a bucket and creates no bucket.
C8_DeleteNoBucketNotFound ==
    [][(/\ call'.op = "delete"
        /\ ValidTable(call'.hash_table)
        /\ VecStore_position(vec_store, call'.d) # None
        /\ call'.hash \notin DOMAIN hash_tables[call'.hash_table])
        => /\ call'.result = "NotFound"
           /\ StoreAndBucketsUnchanged
           /\ call'.hash \notin DOMAIN hash_tables'[call'.hash_table]]_vars

\* C8 witness: a delete returned NotFound for a vector that was put into
\* this very table, under the other hash.
C8_Witness ==
    /\ call.op = "delete"
    /\ call.result = "NotFound"
    /\ call.hash \notin DOMAIN hash_tables[call.hash_table]
    /\ \E i \in DOMAIN puts :
           /\ all_eq(puts[i].d, call.d)
           /\ puts[i].hash_table = call.hash_table
           /\ puts[i].hash # call.hash

\* C9: delete(hash, d, t) with d equal to no stored vector returns Ok and
\* changes neither the store nor a bucket, whether or not a bucket exists
\* for (hash, t) and whatever t is.
C9_DeleteAbsentIsNoOp ==
    [][(call'.op = "delete" /\ VecStore_position(vec_store, call'.d) = None)
        => /\ call'.result = "Ok"
           /\ StoreAndBucketsUnchanged
           /\ vec_store' = vec_store]_vars

\* C9 witness: a delete of a vector not in the non-empty store returned Ok
\* in a table that has no bucket for the hash.
C9_Witness ==
    /\ call.op = "delete"
    /\ call.result = "Ok"
    /\ Len(vec_store.map) > 0
    /\ VecStore_position(vec_store, call.d) = None
    /\ ValidTable(call.hash_table)
    /\ call.hash \notin DOMAIN hash_tables[call.hash_table]

\* The store holds the vectors the same calls without the increase_storage
\* ones produce: push mints the same index and position finds the same index
\* with and without them.
SameAsUnreserved ==
    /\ vec_store.map = unreserved.map
    /\ \A d \in DataPoints :
           /\ VecStore_push(vec_store, d).idx = VecStore_push(unreserved, d).idx
           /\ VecStore_push(vec_store, d).vs.map = VecStore_push(unreserved, d).vs.map
           /\ VecStore_position(vec_store, d) = VecStore_position(unreserved, d)

\* C10: increase_storage returns Ok and changes no stored vector, the
\* store's length, no bucket and no table; and the store is at every moment
\* the one the same calls without the increase_storage ones produce, so the
\* later calls return what they would have returned without it.
C10_IncreaseStorageIsAHint ==
    /\ []SameAsUnreserved
    /\ [][call'.op = "increase_storage" =>
              /\ call'.result = "Ok"
              /\ StoreAndBucketsUnchanged
              /\ n_hash_tables' = n_hash_tables
              /\ puts' = puts]_vars

\* C10 witness: increase_storage was called on a table that holds a vector
\* and a bucket, and left the store with more capacity than the store of
\* the same calls without it.
C10_Witness ==
    /\ call.op = "increase_storage"
    /\ Len(vec_store.map) > 0
    /\ vec_store.capacity > unreserved.capacity
    /\ \E t \in DOMAIN hash_tables : \E h \in DOMAIN hash_tables[t] :
           hash_tables[t][h] # {}

\* Some index is a member of a bucket in one hash table and of a bucket in
\* another hash table.
HandleShared ==
    \E t1, t2 \in DOMAIN hash_tables :
        /\ t1 # t2
        /\ \E h1 \in DOMAIN hash_tables[t1], h2 \in DOMAIN hash_tables[t2] :
               hash_tables[t1][h1] \cap hash_tables[t2][h2] # {}

\* The buckets (table, hash) an index is a member of.
BucketsOf(idx) ==
    {<<t, h>> \in (DOMAIN hash_tables) \X Hashes :
        h \in DOMAIN hash_tables[t] /\ idx \in hash_tables[t][h]}

\* C11 (as claimed): a handle can be shared by bands. The calls that would
\* share one are the puts of one vector into two different hash tables:
\* right after the second of them, the first still in its bucket, some
\* index is a member of a bucket in each of two hash tables.
C11_SameVectorSharesHandle ==
    (/\ call.op = "put"
     /\ call.result = "Ok"
     /\ Len(puts) = 2
     /\ all_eq(puts[1].d, puts[2].d)
     /\ puts[1].hash_table # puts[2].hash_table
     /\ puts[1].idx \in hash_tables[puts[1].hash_table][puts[1].hash])
        => HandleShared

\* C11 (amended): bucket membership is band-local and no handle is shared:
\* in every reachable state an index is a member of at most one bucket, and
\* only of the bucket its put named; one vector put into two hash tables
\* has two indexes.
C11_HandleInOneBucketOnly ==
    /\ ~HandleShared
    /\ \A i \in DOMAIN puts :
           BucketsOf(puts[i].idx) \subseteq {<<puts[i].hash_table, puts[i].hash>>}
    /\ \A i, j \in DOMAIN puts :
           (all_eq(puts[i].d, puts[j].d) /\ puts[i].hash_table # puts[j].hash_table)
               => puts[i].idx # puts[j].idx

\* C11 witness: one vector was put into two hash tables under different
\* hashes; each put's index is in its own bucket and in no other.
C11_Witness ==
    /\ Len(puts) = 2
    /\ all_eq(puts[1].d, puts[2].d)
    /\ puts[1].hash_table # puts[2].hash_table
    /\ puts[1].hash # puts[2].hash
    /\ BucketsOf(puts[1].idx) = {<<puts[1].hash_table, puts[1].hash>>}
    /\ BucketsOf(puts[2].idx) = {<<puts[2].hash_table, puts[2].hash>>}

\* C12 (as claimed): when d was put under (hash, t) and the index minted by
\* that put is still in bucket (hash, t), delete(hash, d, t) returns Ok and
\* removes from that bucket exactly one index, one that resolves to d.
C12_DeleteRemovesOne ==
    [][(/\ call'.op = "delete"
        /\ ValidTable(call'.hash_table)
        /\ call'.hash \in DOMAIN hash_tables[call'.hash_table]
        /\ \E i \in DOMAIN puts :
               /\ PutAt(i, call'.hash, call'.d, call'.hash_table)
               /\ puts[i].idx \in hash_tables[call'.hash_table][call'.hash])
        => LET before == hash_tables[call'.hash_table][call'.hash]
               after == hash_tables'[call'.hash_table][call'.hash]
           IN  /\ call'.result = "Ok"
               /\ after \subseteq before
               /\ Cardinality(before \ after) = 1
               /\ \A x \in before \ after :
                      all_eq(VecStore_get(vec_store, x), call'.d)]_vars

\* C13: a put that returns Ok appends the vector at the end of the store and
\* adds the index minted, which was not in it, to bucket (hash, hash_table),
\* created if absent; every other bucket of that hash table and every other
\* hash table, its set of buckets included, is as before.
C13_PutChangesStoreAndOneBucket ==
    [][(call'.op = "put" /\ call'.result = "Ok")
        => LET t == call'.hash_table
               tbl == hash_tables[t]
               before == IF call'.hash \in DOMAIN tbl THEN tbl[call'.hash] ELSE {}
               idx == puts'[Len(puts')].idx
           IN  /\ vec_store'.map = Append(vec_store.map, call'.d)
               /\ puts' = Append(puts, [hash |-> call'.hash, d |-> call'.d,
                                        hash_table |-> t, idx |-> idx])
               /\ idx \notin before
               /\ DOMAIN hash_tables'[t] = DOMAIN tbl \cup {call'.hash}
               /\ hash_tables'[t][call'.hash] = before \cup {idx}
               /\ \A h \in DOMAIN tbl \ {call'.hash} : hash_tables'[t][h] = tbl[h]
               /\ DOMAIN hash_tables' = DOMAIN hash_tables
               /\ \A u \in DOMAIN hash_tables \ {t} :
                      hash_tables'[u] = hash_tables[u]]_vars

\* C13 witness: a put has just added the second index to a bucket while the
\* other hash table has no bucket at all.
C13_Witness ==
    /\ call.op = "put"
    /\ call.result = "Ok"
    /\ hash_tables[call.hash_table][call.hash] = {0, 1}
    /\ \E u \in DOMAIN hash_tables :
           u # call.hash_table /\ DOMAIN hash_tables[u] = {}

\* C14: a delete leaves the vector store, the set of buckets of every hash
\* table and every bucket but (hash, hash_table) as they are; from that one
\* it removes at most one index and adds none.
C14_DeleteTouchesOneBucket ==
    [][call'.op = "delete"
        => /\ vec_store' = vec_store
           /\ DOMAIN hash_tables' = DOMAIN hash_tables
           /\ \A t \in DOMAIN hash_tables :
                  /\ DOMAIN hash_tables'[t] = DOMAIN hash_tables[t]
                  /\ \A h \in DOMAIN hash_tables[t] :
                         IF t = call'.hash_table /\ h = call'.hash
                         THEN /\ hash_tables'[t][h] \subseteq hash_tables[t][h]
                              /\ Cardinality(hash_tables[t][h] \ hash_tables'[t][h]) <= 1
                         ELSE hash_tables'[t][h] = hash_tables[t][h]]_vars

\* C14 witness: a delete has taken the first of two indexes out of a bucket
\* while another bucket of the same hash table kept its index.
C14_Witness ==
    /\ call.op = "delete"
    /\ call.result = "Ok"
    /\ Len(puts) = 2
    /\ PutAt(1, call.hash, call.d, call.hash_table)
    /\ hash_tables[call.hash_table][call.hash] = {}
    /\ \E h \in DOMAIN hash_tables[call.hash_table] :
           h # call.hash /\ hash_tables[call.hash_table][h] = {1}

\* C15: every index in any bucket of any hash table is smaller than the
\* length of the vector store, and so is every index query_bucket returns:
\* idx_to_datapoint on it does not go out of bounds.
C15_BucketIndexesInBounds ==
    /\ \A t \in DOMAIN hash_tables : \A h \in DOMAIN hash_tables[t] :
           \A idx \in hash_tables[t][h] : InBounds(vec_store, idx)
    /\ (call.op = "query_bucket" /\ call.result = "Ok") =>
           \A idx \in call.bucket : InBounds(vec_store, idx)
    /\ (call.op = "idx_to_datapoint" /\ BucketsOf(call.n) # {}) =>
           call.result = "Ok"

\* C15 witness: idx_to_datapoint has resolved the highest index of a bucket
\* of two, in a store that is full.
C15_Witness ==
    /\ call.op = "idx_to_datapoint"
    /\ call.result = "Ok"
    /\ call.n = Len(vec_store.map) - 1
    /\ \E t \in DOMAIN hash_tables : \E h \in DOMAIN hash_tables[t] :
           call.n \in hash_tables[t][h] /\ Cardinality(hash_tables[t][h]) = 2

\* position(d) is None exactly when no stored vector equals d, and else the
\* smallest index whose vector equals d.
PositionIsFirstMatch ==
    \A d \in DataPoints :
        LET pos == VecStore_position(vec_store, d)
        IN  /\ (pos = None) <=> (\A i \in 1..Len(vec_store.map) : ~all_eq(vec_store.map[i], d))
            /\ \A x \in pos :
                   /\ InBounds(vec_store, x)
                   /\ all_eq(VecStore_get(vec_store, x), d)
                   /\ \A y \in 0..(x - 1) : ~all_eq(VecStore_get(vec_store, y), d)

\* C16: position returns the smallest index whose stored vector equals d and
\* None exactly when there is none; the index a delete that returns Ok takes
\* out of its bucket, if any, is the one minted by the earliest put of that
\* vector, whatever hash and hash table that put named.
C16_DeleteTakesEarliestPut ==
    /\ []PositionIsFirstMatch
    /\ [][(call'.op = "delete" /\ call'.result = "Ok"
             /\ \E i \in DOMAIN puts : all_eq(puts[i].d, call'.d))
          => LET first == CHOOSE i \in DOMAIN puts :
                              /\ all_eq(puts[i].d, call'.d)
                              /\ \A j \in 1..(i - 1) : ~all_eq(puts[j].d, call'.d)
                 t == call'.hash_table
                 h == call'.hash
             IN  hash_tables'[t][h] = hash_tables[t][h] \ {puts[first].idx}]_vars

\* C16 witness: one vector was put twice, the second time into another hash
\* table; the delete naming the second put's bucket went for the first
\* put's index and left the second one in.
C16_Witness ==
    /\ call.op = "delete"
    /\ call.result = "Ok"
    /\ Len(puts) = 2
    /\ all_eq(puts[1].d, call.d)
    /\ puts[1].hash_table # puts[2].hash_table
    /\ PutAt(2, call.hash, call.d, call.hash_table)
    /\ hash_tables[call.hash_table][call.hash] = {1}

\* C17: a delete repeated right after itself returns what the first call
\* returned and leaves the vector store and every bucket as the first call
\* left them.
C17_DeleteTwiceIsDeleteOnce ==
    [][(/\ call.op = "delete"
        /\ call'.op = "delete"
        /\ call'.hash = call.hash
        /\ call'.d = call.d
        /\ call'.hash_table = call.hash_table)
        => /\ call'.result = call.result
           /\ hash_tables' = hash_tables
           /\ vec_store' = vec_store]_vars

\* C17 witness: a delete has returned Ok for a vector stored twice in its
\* bucket, of which one index is left: the state a repeated delete is made
\* from and ends in.
C17_Witness ==
    /\ call.op = "delete"
    /\ call.result = "Ok"
    /\ Len(puts) = 2
    /\ PutAt(1, call.hash, call.d, call.hash_table)
    /\ PutAt(2, call.hash, call.d, call.hash_table)
    /\ hash_tables[call.hash_table][call.hash] = {1}

\* C18: in every reachable state hash_tables has exactly the L entries
\* new(L) gave it and n_hash_tables is L.
C18_TableCountFixed ==
    /\ DOMAIN hash_tables = 0..(L - 1)
    /\ n_hash_tables = L
    /\ Cardinality(DOMAIN hash_tables) = n_hash_tables

\* C18 witness: increase_storage was called after two puts, into different
\* hash tables, and a delete that emptied a bucket.
C18_Witness ==
    /\ call.op = "increase_storage"
    /\ Len(puts) = 2
    /\ puts[1].hash_table # puts[2].hash_table
    /\ SomeBucketEmptied

\* C19 (as claimed): the index push returns is the position of the vector
\* just appended, so that it resolves to that vector and no index is
\* returned twice, also when more vectors are stored than the index type
\* has values.
C19_PushReturnsItsIndex ==
    \A i \in DOMAIN puts :
        /\ puts[i].idx = i - 1
        /\ \A j \in DOMAIN puts : j # i => puts[j].idx # puts[i].idx
        /\ all_eq(VecStore_get(vec_store, puts[i].idx), puts[i].d)

====
